---------------------------- MODULE Spec2Model ----------------------------
(* A state-machine model of package jogger (jogger.go): request-scoped,   *)
(* span-based structured logging on top of context.Context and zap.       *)
(*                                                                        *)
(* Carriers (context.Context values) live in a heap of immutable nodes,   *)
(* spans in a heap of Span structs; goroutines run SetTag and Finish one  *)
(* statement group at a time; the zap sink is the sequence of records     *)
(* written so far.                                                        *)
EXTENDS Integers, Sequences, FiniteSets, Bags, TLC

VARIABLES
    ctxs,       \* heap of context nodes: ctxs[c] = [parent, key, typ, val]
    spans,      \* heap of Span structs: [logger, start, fields, mu]
    derived,    \* history: per context node, the call that made it: [op, cin, arg]
    started,    \* history of StartSpan calls: [cin, cout, name, id]
    nuuid,      \* number of UUIDs drawn from uuid.New() so far
    now,        \* the monotonic clock, in ticks of half a second
    err,        \* the caller's error slot a Finish reference points to
    frame,      \* per goroutine: the call it is in and that call's locals
    returned,   \* history: per span, the (key, value) pairs of returned SetTag calls
    finished,   \* history: per span, the number of returned Finish calls
    called,     \* history of Info/Warn/Error calls: [op, c, msg, fields]
    log         \* the records written to the sinks, oldest first

vars ==
    <<ctxs, derived, spans, started, nuuid, now, err, frame, returned, finished, called, log>>

-----------------------------------------------------------------------------
(* Bounds of the model.                                                   *)

MaxCtx == 2        \* derived carriers (Background not counted)
MaxSpans == 2      \* StartSpan calls
MaxTags == 2       \* SetTag calls
MaxFinish == 2     \* Finish calls
MaxEmit == 1       \* Info/Warn/Error calls
MaxTime == 3       \* clock ticks

(* time.Second, in clock ticks: one tick is half a second.                *)
Second == 2

-----------------------------------------------------------------------------
(* Values.                                                                *)

RequestIDKey == "requestID"
SpanKey == "currentSpan"
LoggerKey == "currentLogger"

Background == 0

RequestIDs == {"", "r1"}
Names == {"op"}
UUIDs == <<"u1", "u2", "u3", "u4", "u5", "u6">>
TagKeys == {"k"}
(* Each goroutine tags with a value of its own.                           *)
TagValue(g) == IF g = "g1" THEN "v" ELSE "w"
Messages == {"msg"}

Goroutines == {"g1", "g2"}
NoGoroutine == "none"

NilError == [isNil |-> TRUE, msg |-> ""]
Boom == [isNil |-> FALSE, msg |-> "boom"]
Errors == {NilError, Boom}

(* An error reference passed to Finish: nil, or the address of err.       *)
ErrRefs == {"nil", "&err"}

(* zap.Field: Key, Type and the payload (Integer or String).              *)
ZapString(key, val) == [Key |-> key, Type |-> "String", Integer |-> 0, String |-> val]

ZapAny(key, value) == ZapString(key, value)

ZapDuration(key, d) == [Key |-> key, Type |-> "Duration", Integer |-> d, String |-> ""]

ZapError(e) == [Key |-> "error", Type |-> "Error", Integer |-> 0, String |-> e.msg]

(* A *zap.Logger: the core it writes to and the fields bound with With.   *)
baseLogger == [core |-> "stdout", fields |-> <<>>]

customLogger == [core |-> "custom", fields |-> <<>>]

With(l, fields) == [l EXCEPT !.fields = @ \o fields]

(* The record a logger writes: its bound fields, then those of the call.  *)
Record(l, level, msg, fields) ==
    [core |-> l.core, level |-> level, msg |-> msg, fields |-> l.fields \o fields]

(* zapcore levels, and the level each core is built with: init() gives    *)
(* the default core zapcore.InfoLevel, zap.NewDevelopment() debug.        *)
LevelRank(level) ==
    CASE level = "debug" -> 0 [] level = "info" -> 1 [] level = "warn" -> 2
      [] level = "error" -> 3

(* The default core built with zapcore.WarnLevel.                          *)
CoreLevelWarn(core) == IF core = "stdout" THEN "warn" ELSE "debug"

CoreLevel(core) == IF core = "stdout" THEN "info" ELSE "debug"

(* logger.Info / Warn / Error: the sink after the call.                   *)
Write(sink, l, level, msg, fields) ==
    IF LevelRank(level) >= LevelRank(CoreLevel(l.core))
    THEN Append(sink, Record(l, level, msg, fields))
    ELSE sink

-----------------------------------------------------------------------------
(* Context propagation.                                                   *)

Absent == [typ |-> "nil", val |-> ""]

(* A derivation that starts over from context.Background().               *)
WithValueDetached(c, key, typ, val) ==
    [parent |-> Background, key |-> key, typ |-> typ, val |-> val]

(* context.WithValue: a new node pointing to its parent.                  *)
WithValue(c, key, typ, val) == [parent |-> c, key |-> key, typ |-> typ, val |-> val]

(* ctx.Value(key) on a heap: the nearest binding walking to the root.     *)
RECURSIVE ValueIn(_, _, _)
ValueIn(heap, c, key) ==
    IF c = Background THEN Absent
    ELSE IF heap[c].key = key THEN [typ |-> heap[c].typ, val |-> heap[c].val]
    ELSE ValueIn(heap, heap[c].parent, key)

Value(c, key) == ValueIn(ctxs, c, key)

Carriers == {Background} \cup DOMAIN ctxs

(* ctx.Value(key).(string): the value and whether the assertion held.     *)
AsString(x) == [v |-> IF x.typ = "string" THEN x.val ELSE "", ok |-> x.typ = "string"]

AsLogger(x) ==
    [v |-> IF x.typ = "*zap.Logger" THEN customLogger ELSE baseLogger,
     ok |-> x.typ = "*zap.Logger"]

(* WithRequestID assigning the request ID in place when the carrier it   *)
(* is given is itself a request-ID binding.                               *)
WithRequestIDInPlace(c, requestID) ==
    IF c # Background /\ ctxs[c].key = RequestIDKey
    THEN /\ ctxs' = [ctxs EXCEPT ![c].val = requestID]
         /\ UNCHANGED <<derived, spans, started, nuuid, now, err, frame, returned,
                        finished, log, called>>
    ELSE /\ ctxs' = Append(ctxs, WithValue(c, RequestIDKey, "string", requestID))
         /\ derived' = Append(derived, [op |-> "WithRequestID", cin |-> c, arg |-> requestID])
         /\ UNCHANGED <<spans, started, nuuid, now, err, frame, returned, finished, log, called>>

(* WithRequestID reaching the live spans: the span whose ID the carrier   *)
(* binds gets the request ID on its logger.                               *)
WithRequestIDOnSpan(c, requestID) ==
    /\ ctxs' = Append(ctxs, WithValue(c, RequestIDKey, "string", requestID))
    /\ derived' = Append(derived, [op |-> "WithRequestID", cin |-> c, arg |-> requestID])
    /\ spans' = [s \in DOMAIN spans |->
                    IF \E i \in DOMAIN spans[s].logger.fields :
                          /\ spans[s].logger.fields[i].Key = "spanID"
                          /\ spans[s].logger.fields[i].String = ValueIn(ctxs, c, SpanKey).val
                    THEN [spans[s] EXCEPT
                            !.logger.fields = @ \o <<ZapString("requestID", requestID)>>]
                    ELSE spans[s]]
    /\ UNCHANGED <<started, nuuid, now, err, frame, returned, finished, log, called>>

(* WithRequestID binding the wrong well-known key.                        *)
WithRequestIDWrongKey(c, requestID) ==
    /\ ctxs' = Append(ctxs, WithValue(c, SpanKey, "string", requestID))
    /\ derived' = Append(derived, [op |-> "WithRequestID", cin |-> c, arg |-> requestID])
    /\ UNCHANGED <<spans, started, nuuid, now, err, frame, returned, finished, log, called>>

WithRequestID(c, requestID) ==
    /\ ctxs' = Append(ctxs, WithValue(c, RequestIDKey, "string", requestID))
    /\ derived' = Append(derived, [op |-> "WithRequestID", cin |-> c, arg |-> requestID])
    /\ UNCHANGED <<spans, started, nuuid, now, err, frame, returned, finished, log, called>>

(* context.WithValue(ctx, LoggerKey, customLogger), as callers and the    *)
(* tests bind a logger override.                                          *)
WithLogger(c) ==
    /\ ctxs' = Append(ctxs, WithValue(c, LoggerKey, "*zap.Logger", "customLogger"))
    /\ derived' = Append(derived, [op |-> "WithValue", cin |-> c, arg |-> "customLogger"])
    /\ UNCHANGED <<spans, started, nuuid, now, err, frame, returned, finished, log, called>>


-----------------------------------------------------------------------------
(* Logger resolution.                                                     *)

(* FromContext testing the request ID against "" as StartSpan does.       *)
FromContextDropsEmpty(c) ==
    LET rid == AsString(Value(c, RequestIDKey))
        span == AsString(Value(c, SpanKey))
        l == AsLogger(Value(c, LoggerKey))
        f1 == IF rid.v # "" THEN <<ZapString("requestID", rid.v)>> ELSE <<>>
        f2 == IF span.ok THEN <<ZapString("span", span.v)>> ELSE <<>>
    IN  IF l.ok THEN With(l.v, f1 \o f2) ELSE With(baseLogger, f1 \o f2)

FromContext(c) ==
    LET rid == AsString(Value(c, RequestIDKey))
        span == AsString(Value(c, SpanKey))
        l == AsLogger(Value(c, LoggerKey))
        f1 == IF rid.ok THEN <<ZapString("requestID", rid.v)>> ELSE <<>>
        f2 == IF span.ok THEN <<ZapString("span", span.v)>> ELSE <<>>
    IN  IF l.ok THEN With(l.v, f1 \o f2) ELSE With(baseLogger, f1 \o f2)

-----------------------------------------------------------------------------
(* Span lifecycle.                                                        *)

(* A goroutine's frame: where it is, its call's arguments and locals, and *)
(* atCall, history: what the error slot held when its last Finish was     *)
(* entered (kept after the return).                                       *)
IdleFrame ==
    [pc |-> "idle", span |-> 0, key |-> "", value |-> "", ref |-> "nil",
     fieldsCopy |-> <<>>, atCall |-> NilError]

(* The fields StartSpan binds to the span's logger.                       *)
SpanFields(name, spanID, requestID) ==
    <<ZapString("span", name), ZapString("spanID", spanID)>>
        \o (IF requestID # "" THEN <<ZapString("requestID", requestID)>> ELSE <<>>)

(* StartSpan binding the span's name, not its ID, as the current span.    *)
StartSpanBindsName(c, name) ==
    LET requestID == AsString(Value(c, RequestIDKey)).v
        spanID == UUIDs[nuuid + 1]
        l == With(baseLogger, SpanFields(name, spanID, requestID))
    IN  /\ nuuid < Len(UUIDs)
        /\ nuuid' = nuuid + 1
        /\ ctxs' = Append(ctxs, WithValue(c, SpanKey, "string", name))
        /\ derived' = Append(derived, [op |-> "StartSpan", cin |-> c, arg |-> name])
        /\ spans' = Append(spans, [logger |-> l, start |-> now, fields |-> <<>>,
                                   mu |-> NoGoroutine])
        /\ started' = Append(started, [cin |-> c, cout |-> Len(ctxs) + 1,
                                       name |-> name, id |-> spanID])
        /\ returned' = Append(returned, <<>>)
        /\ finished' = Append(finished, 0)
        /\ UNCHANGED <<now, err, frame, log, called>>

(* StartSpan building the span's logger on the logger resolved from ctx.  *)
StartSpanFromContext(c, name) ==
    LET requestID == AsString(Value(c, RequestIDKey)).v
        spanID == UUIDs[nuuid + 1]
        base == AsLogger(Value(c, LoggerKey))
        l == With(base.v, SpanFields(name, spanID, requestID))
    IN  /\ nuuid < Len(UUIDs)
        /\ nuuid' = nuuid + 1
        /\ ctxs' = Append(ctxs, WithValue(c, SpanKey, "string", spanID))
        /\ derived' = Append(derived, [op |-> "StartSpan", cin |-> c, arg |-> name])
        /\ spans' = Append(spans, [logger |-> l, start |-> now, fields |-> <<>>,
                                   mu |-> NoGoroutine])
        /\ started' = Append(started, [cin |-> c, cout |-> Len(ctxs) + 1,
                                       name |-> name, id |-> spanID])
        /\ returned' = Append(returned, <<>>)
        /\ finished' = Append(finished, 0)
        /\ UNCHANGED <<now, err, frame, log, called>>

StartSpan(c, name) ==
    LET requestID == AsString(Value(c, RequestIDKey)).v
        spanID == UUIDs[nuuid + 1]
        l == With(baseLogger, SpanFields(name, spanID, requestID))
    IN  /\ nuuid < Len(UUIDs)
        /\ nuuid' = nuuid + 1
        /\ ctxs' = Append(ctxs, WithValue(c, SpanKey, "string", spanID))
        /\ derived' = Append(derived, [op |-> "StartSpan", cin |-> c, arg |-> name])
        /\ spans' = Append(spans, [logger |-> l, start |-> now, fields |-> <<>>,
                                   mu |-> NoGoroutine])
        /\ started' = Append(started, [cin |-> c, cout |-> Len(ctxs) + 1,
                                       name |-> name, id |-> spanID])
        /\ returned' = Append(returned, <<>>)
        /\ finished' = Append(finished, 0)
        /\ UNCHANGED <<now, err, frame, log, called>>

(* SetTag, entered: the goroutine is about to take s.mu.                  *)
SetTagCall(g, s, key, value) ==
    /\ frame[g].pc = "idle"
    /\ frame' = [frame EXCEPT ![g] = [IdleFrame EXCEPT !.pc = "SetTag:Lock", !.span = s,
                                                      !.key = key, !.value = value]]
    /\ UNCHANGED <<ctxs, derived, spans, started, nuuid, now, err, returned, finished, log, called>>

(* s.mu.Lock()                                                            *)
SetTagLock(g) ==
    /\ frame[g].pc = "SetTag:Lock"
    /\ spans[frame[g].span].mu = NoGoroutine
    /\ spans' = [spans EXCEPT ![frame[g].span].mu = g]
    /\ frame' = [frame EXCEPT ![g].pc = "SetTag:append"]
    /\ UNCHANGED <<ctxs, derived, started, nuuid, now, err, returned, finished, log, called>>

(* SetTag putting the new tag in front of the earlier ones.                *)
SetTagAppendFront(g) ==
    LET s == frame[g].span
    IN  /\ frame[g].pc = "SetTag:append"
        /\ spans' = [spans EXCEPT
                        ![s].fields = <<ZapAny(frame[g].key, frame[g].value)>> \o @,
                        ![s].mu = NoGoroutine]
        /\ returned' = [returned EXCEPT ![s] = Append(@, <<frame[g].key, frame[g].value>>)]
        /\ frame' = [frame EXCEPT ![g] = IdleFrame]
        /\ UNCHANGED <<ctxs, derived, started, nuuid, now, err, finished, log, called>>

(* SetTag as a map would do it: a repeated key overwrites its entry.      *)
SetTagAppendLastWins(g) ==
    LET s == frame[g].span
        f == ZapAny(frame[g].key, frame[g].value)
        old == spans[s].fields
    IN  /\ frame[g].pc = "SetTag:append"
        /\ spans' = [spans EXCEPT
                        ![s].fields =
                            IF \E i \in DOMAIN old : old[i].Key = f.Key
                            THEN [i \in DOMAIN old |->
                                    IF old[i].Key = f.Key THEN f ELSE old[i]]
                            ELSE Append(old, f),
                        ![s].mu = NoGoroutine]
        /\ returned' = [returned EXCEPT ![s] = Append(@, <<frame[g].key, frame[g].value>>)]
        /\ frame' = [frame EXCEPT ![g] = IdleFrame]
        /\ UNCHANGED <<ctxs, derived, started, nuuid, now, err, finished, log, called>>

(* s.fields = append(s.fields, zap.Any(key, value)), the deferred         *)
(* s.mu.Unlock(), and the return.                                         *)
SetTagAppend(g) ==
    LET s == frame[g].span
    IN  /\ frame[g].pc = "SetTag:append"
        /\ spans' = [spans EXCEPT
                        ![s].fields = Append(@, ZapAny(frame[g].key, frame[g].value)),
                        ![s].mu = NoGoroutine]
        /\ returned' = [returned EXCEPT ![s] = Append(@, <<frame[g].key, frame[g].value>>)]
        /\ frame' = [frame EXCEPT ![g] = IdleFrame]
        /\ UNCHANGED <<ctxs, derived, started, nuuid, now, err, finished, log, called>>

(* Finish, entered with an error reference.                               *)
FinishCall(g, s, ref) ==
    /\ frame[g].pc = "idle"
    /\ frame' = [frame EXCEPT ![g] = [IdleFrame EXCEPT !.pc = "Finish:Lock", !.span = s,
                                                      !.ref = ref,
                                                      !.atCall = IF ref = "&err" THEN err
                                                                 ELSE NilError]]
    /\ UNCHANGED <<ctxs, derived, spans, started, nuuid, now, err, returned, finished, log, called>>

(* Finish entering its critical section without waiting for the lock.     *)
FinishLockNoWait(g) ==
    /\ frame[g].pc = "Finish:Lock"
    /\ spans' = [spans EXCEPT ![frame[g].span].mu = g]
    /\ frame' = [frame EXCEPT ![g].pc = "Finish:copy"]
    /\ UNCHANGED <<ctxs, derived, started, nuuid, now, err, returned, finished, log, called>>

(* s.mu.Lock()                                                            *)
FinishLock(g) ==
    /\ frame[g].pc = "Finish:Lock"
    /\ spans[frame[g].span].mu = NoGoroutine
    /\ spans' = [spans EXCEPT ![frame[g].span].mu = g]
    /\ frame' = [frame EXCEPT ![g].pc = "Finish:copy"]
    /\ UNCHANGED <<ctxs, derived, started, nuuid, now, err, returned, finished, log, called>>

(* A Finish that hands the tags over: the snapshot empties s.fields.      *)
FinishSnapshotClears(g) ==
    LET s == frame[g].span
    IN  /\ frame[g].pc = "Finish:copy"
        /\ frame' = [frame EXCEPT ![g].fieldsCopy = spans[s].fields,
                                  ![g].pc = "Finish:emit"]
        /\ spans' = [spans EXCEPT ![s].mu = NoGoroutine, ![s].fields = <<>>]
        /\ UNCHANGED <<ctxs, derived, started, nuuid, now, err, returned, finished, log, called>>

(* A Finish that returns from its snapshot without s.mu.Unlock().         *)
FinishSnapshotKeepsLock(g) ==
    LET s == frame[g].span
    IN  /\ frame[g].pc = "Finish:copy"
        /\ frame' = [frame EXCEPT ![g].fieldsCopy = spans[s].fields,
                                  ![g].pc = "Finish:emit"]
        /\ UNCHANGED <<ctxs, derived, spans, started, nuuid, now, err, returned, finished,
                       log, called>>

(* fieldsCopy := make(...); copy(fieldsCopy, s.fields); s.mu.Unlock()     *)
FinishSnapshot(g) ==
    LET s == frame[g].span
    IN  /\ frame[g].pc = "Finish:copy"
        /\ frame' = [frame EXCEPT ![g].fieldsCopy = spans[s].fields,
                                  ![g].pc = "Finish:emit"]
        /\ spans' = [spans EXCEPT ![s].mu = NoGoroutine]
        /\ UNCHANGED <<ctxs, derived, started, nuuid, now, err, returned, finished, log, called>>

(* FinishWrite with the duration tested before the error.                 *)
FinishWriteSlowFirst(sink, l, fieldsCopy, elapsed, ref, e) ==
    LET fc == Append(fieldsCopy, ZapDuration("duration", elapsed))
    IN  IF elapsed > 1 * Second
        THEN Write(sink, l, "warn", "span finished slowly", fc)
        ELSE IF ref # "nil" /\ ~e.isNil
        THEN Write(sink, l, "error", "span finished with error", Append(fc, ZapError(e)))
        ELSE Write(sink, l, "info", "span finished successfully", fc)

(* FinishWrite appending the error field before the duration.             *)
FinishWriteErrorFirst(sink, l, fieldsCopy, elapsed, ref, e) ==
    LET fc == Append(fieldsCopy, ZapDuration("duration", elapsed))
    IN  IF ref # "nil" /\ ~e.isNil
        THEN Write(sink, l, "error", "span finished with error",
                   Append(Append(fieldsCopy, ZapError(e)), ZapDuration("duration", elapsed)))
        ELSE IF elapsed > 1 * Second
        THEN Write(sink, l, "warn", "span finished slowly", fc)
        ELSE Write(sink, l, "info", "span finished successfully", fc)

(* The sink after Finish has written its record for a snapshot, an       *)
(* elapsed time and the error reference: the three-way classification.    *)
FinishWrite(sink, l, fieldsCopy, elapsed, ref, e) ==
    LET fc == Append(fieldsCopy, ZapDuration("duration", elapsed))
    IN  IF ref # "nil" /\ ~e.isNil
        THEN Write(sink, l, "error", "span finished with error", Append(fc, ZapError(e)))
        ELSE IF elapsed > 1 * Second
        THEN Write(sink, l, "warn", "span finished slowly", fc)
        ELSE Write(sink, l, "info", "span finished successfully", fc)

(* Finish writing s.fields as it is at emission, not the snapshot.        *)
FinishEmitLive(g) ==
    LET s == frame[g].span
        elapsed == now - spans[s].start
    IN  /\ frame[g].pc = "Finish:emit"
        /\ log' = FinishWrite(log, spans[s].logger, spans[s].fields, elapsed,
                              frame[g].ref, err)
        /\ finished' = [finished EXCEPT ![s] = @ + 1]
        /\ frame' = [frame EXCEPT ![g] = [IdleFrame EXCEPT !.atCall = frame[g].atCall]]
        /\ UNCHANGED <<ctxs, derived, spans, started, nuuid, now, err, returned, called>>

(* Finish classifying on the error the slot held when it was entered, as *)
(* a Finish taking the error by value would.                              *)
FinishEmitAtCall(g) ==
    LET s == frame[g].span
        elapsed == now - spans[s].start
    IN  /\ frame[g].pc = "Finish:emit"
        /\ log' = FinishWrite(log, spans[s].logger, frame[g].fieldsCopy, elapsed,
                              frame[g].ref, frame[g].atCall)
        /\ finished' = [finished EXCEPT ![s] = @ + 1]
        /\ frame' = [frame EXCEPT ![g] = [IdleFrame EXCEPT !.atCall = frame[g].atCall]]
        /\ UNCHANGED <<ctxs, derived, spans, started, nuuid, now, err, returned, called>>

(* elapsed := time.Since(s.start), the classification, the emission and   *)
(* the return.                                                            *)
FinishEmit(g) ==
    LET s == frame[g].span
        elapsed == now - spans[s].start
    IN  /\ frame[g].pc = "Finish:emit"
        /\ log' = FinishWrite(log, spans[s].logger, frame[g].fieldsCopy, elapsed,
                              frame[g].ref, err)
        /\ finished' = [finished EXCEPT ![s] = @ + 1]
        /\ frame' = [frame EXCEPT ![g] = [IdleFrame EXCEPT !.atCall = frame[g].atCall]]
        /\ UNCHANGED <<ctxs, derived, spans, started, nuuid, now, err, returned, called>>

-----------------------------------------------------------------------------
(* Logging facade.                                                        *)

(* Warn written like Info: the record leaves at info level.               *)
WarnAsInfo(c, msg, fields) ==
    /\ log' = Write(log, FromContext(c), "info", msg, fields)
    /\ called' = Append(called, [op |-> "Warn", c |-> c, msg |-> msg, fields |-> fields])
    /\ UNCHANGED <<ctxs, derived, spans, started, nuuid, now, err, frame, returned, finished>>

Info(c, msg, fields) ==
    /\ log' = Write(log, FromContext(c), "info", msg, fields)
    /\ called' = Append(called, [op |-> "Info", c |-> c, msg |-> msg, fields |-> fields])
    /\ UNCHANGED <<ctxs, derived, spans, started, nuuid, now, err, frame, returned, finished>>

Warn(c, msg, fields) ==
    /\ log' = Write(log, FromContext(c), "warn", msg, fields)
    /\ called' = Append(called, [op |-> "Warn", c |-> c, msg |-> msg, fields |-> fields])
    /\ UNCHANGED <<ctxs, derived, spans, started, nuuid, now, err, frame, returned, finished>>

Error(c, msg, fields) ==
    /\ log' = Write(log, FromContext(c), "error", msg, fields)
    /\ called' = Append(called, [op |-> "Error", c |-> c, msg |-> msg, fields |-> fields])
    /\ UNCHANGED <<ctxs, derived, spans, started, nuuid, now, err, frame, returned, finished>>

-----------------------------------------------------------------------------
(* The environment: time passes, and the caller assigns its error slot.   *)

Tick ==
    /\ now < MaxTime
    /\ now' = now + 1
    /\ UNCHANGED <<ctxs, derived, spans, started, nuuid, err, frame, returned, finished, log, called>>

SetErr(e) ==
    /\ e # err
    /\ err' = e
    /\ UNCHANGED <<ctxs, derived, spans, started, nuuid, now, frame, returned, finished, log, called>>

-----------------------------------------------------------------------------
(* Specifications.                                                        *)

Init ==
    /\ ctxs = <<>>
    /\ derived = <<>>
    /\ spans = <<>>
    /\ started = <<>>
    /\ nuuid = 0
    /\ now = 0
    /\ err = NilError
    /\ frame = [g \in Goroutines |-> IdleFrame]
    /\ returned = <<>>
    /\ finished = <<>>
    /\ called = <<>>
    /\ log = <<>>

(* Calls in progress or returned, counted against the bounds.             *)
RECURSIVE Sum(_)
Sum(ns) == IF ns = <<>> THEN 0 ELSE Head(ns) + Sum(Tail(ns))

TagCalls ==
    Sum([s \in DOMAIN returned |-> Len(returned[s])])
        + Cardinality({g \in Goroutines : frame[g].pc \in {"SetTag:Lock", "SetTag:append"}})

FinishCalls ==
    Sum(finished) + Cardinality({g \in Goroutines :
        frame[g].pc \in {"Finish:Lock", "Finish:copy", "Finish:emit"}})

FacadeFields == {<<ZapString("foo", "bar")>>}

(* Records written or about to be written by a Finish in progress.        *)
Emissions ==
    Len(log) + Cardinality({g \in Goroutines :
        frame[g].pc \in {"Finish:Lock", "Finish:copy", "Finish:emit"}})

(* Carriers and identity: every derivation, one goroutine.                *)
Next ==
    \/ \E c \in Carriers, id \in RequestIDs : Len(ctxs) < MaxCtx /\ WithRequestID(c, id)
    \/ \E c \in Carriers : Len(ctxs) < MaxCtx /\ WithLogger(c)
    \/ \E c \in Carriers, name \in Names :
        Len(ctxs) < MaxCtx /\ Len(spans) < MaxSpans /\ StartSpan(c, name)
    \/ \E s \in DOMAIN spans : Emissions < MaxEmit /\ FinishCall("g1", s, "nil")
    \/ FinishLock("g1")
    \/ FinishSnapshot("g1")
    \/ FinishEmit("g1")
    \/ \E c \in Carriers, msg \in Messages, fields \in FacadeFields :
        Emissions < MaxEmit /\ Info(c, msg, fields)
    \/ \E c \in Carriers, msg \in Messages, fields \in FacadeFields :
        Emissions < MaxEmit /\ Warn(c, msg, fields)
    \/ \E c \in Carriers, msg \in Messages, fields \in FacadeFields :
        Emissions < MaxEmit /\ Error(c, msg, fields)

Spec == Init /\ [][Next]_vars

(* The life of a span among the carriers: every derivation, Info, and    *)
(* one goroutine that tags and finishes.                                  *)
NextLife ==
    \/ \E c \in Carriers, id \in RequestIDs : Len(ctxs) < MaxCtx /\ WithRequestID(c, id)
    \/ \E c \in Carriers : Len(ctxs) < MaxCtx /\ WithLogger(c)
    \/ \E c \in Carriers, name \in Names :
        Len(ctxs) < MaxCtx /\ Len(spans) < MaxSpans /\ StartSpan(c, name)
    \/ \E s \in DOMAIN spans, key \in TagKeys :
        TagCalls < MaxTags /\ SetTagCall("g1", s, key, TagValue("g1"))
    \/ SetTagLock("g1")
    \/ SetTagAppend("g1")
    \/ \E s \in DOMAIN spans : Emissions < MaxEmit /\ FinishCall("g1", s, "nil")
    \/ FinishLock("g1")
    \/ FinishSnapshot("g1")
    \/ FinishEmit("g1")
    \/ \E c \in Carriers, msg \in Messages, fields \in FacadeFields :
        Emissions < MaxEmit /\ Info(c, msg, fields)

SpecLife == Init /\ [][NextLife]_vars

(* Concurrency on spans: two goroutines tag and finish shared spans.       *)
NextSpan ==
    \/ \E name \in Names : Len(spans) < MaxSpans /\ StartSpan(Background, name)
    \/ \E g \in Goroutines, s \in DOMAIN spans, key \in TagKeys :
        TagCalls < MaxTags /\ SetTagCall(g, s, key, TagValue(g))
    \/ \E g \in Goroutines : SetTagLock(g)
    \/ \E g \in Goroutines : SetTagAppend(g)
    \/ \E g \in Goroutines, s \in DOMAIN spans :
        FinishCalls < MaxFinish /\ FinishCall(g, s, "nil")
    \/ \E g \in Goroutines : FinishLock(g)
    \/ \E g \in Goroutines : FinishSnapshot(g)
    \/ \E g \in Goroutines : FinishEmit(g)

SpecSpan == Init /\ [][NextSpan]_vars

(* Fair scheduling: the Go scheduler runs every runnable goroutine, and   *)
(* a goroutine waiting in sync.Mutex.Lock gets the lock (the mutex hands  *)
(* it over to a starving waiter).                                         *)
Fairness ==
    \A g \in Goroutines :
        /\ SF_vars(SetTagLock(g))
        /\ WF_vars(SetTagAppend(g))
        /\ SF_vars(FinishLock(g))
        /\ WF_vars(FinishSnapshot(g))
        /\ WF_vars(FinishEmit(g))

(* Contention on one span: both goroutines tag and finish the same span.  *)
NextContend ==
    \/ \E name \in Names : spans = <<>> /\ StartSpan(Background, name)
    \/ \E g \in Goroutines, s \in DOMAIN spans, key \in TagKeys :
        TagCalls < MaxTags /\ SetTagCall(g, s, key, TagValue(g))
    \/ \E g \in Goroutines : SetTagLock(g)
    \/ \E g \in Goroutines : SetTagAppend(g)
    \/ \E g \in Goroutines, s \in DOMAIN spans :
        FinishCalls < MaxFinish /\ FinishCall(g, s, "nil")
    \/ \E g \in Goroutines : FinishLock(g)
    \/ \E g \in Goroutines : FinishSnapshot(g)
    \/ \E g \in Goroutines : FinishEmit(g)

SpecContend == Init /\ [][NextContend]_vars /\ Fairness

(* Classification: one goroutine, a running clock and the error slot.     *)
NextFinish ==
    \/ \E name \in Names : Len(spans) < MaxSpans /\ StartSpan(Background, name)
    \/ \E s \in DOMAIN spans, ref \in ErrRefs :
        FinishCalls < MaxFinish /\ FinishCall("g1", s, ref)
    \/ FinishLock("g1")
    \/ FinishSnapshot("g1")
    \/ FinishEmit("g1")
    \/ Tick
    \/ \E e \in Errors : SetErr(e)

SpecFinish == Init /\ [][NextFinish]_vars

(* A deferred Finish: one goroutine tags the span, assigns its error slot *)
(* and finishes with or without the reference; the clock stands still.    *)
NextDefer ==
    \/ \E name \in Names : Len(spans) < MaxSpans /\ StartSpan(Background, name)
    \/ \E s \in DOMAIN spans, key \in TagKeys :
        TagCalls < MaxTags /\ SetTagCall("g1", s, key, TagValue("g1"))
    \/ SetTagLock("g1")
    \/ SetTagAppend("g1")
    \/ \E s \in DOMAIN spans, ref \in ErrRefs :
        FinishCalls < MaxFinish /\ FinishCall("g1", s, ref)
    \/ FinishLock("g1")
    \/ FinishSnapshot("g1")
    \/ FinishEmit("g1")
    \/ \E e \in Errors : SetErr(e)

SpecDefer == Init /\ [][NextDefer]_vars

-----------------------------------------------------------------------------
(* Reading the sink.                                                      *)

IsPrefix(a, b) == Len(a) <= Len(b) /\ SubSeq(b, 1, Len(a)) = a

Range(seq) == {seq[i] : i \in DOMAIN seq}

SeqToBag(seq) == [x \in Range(seq) |-> Cardinality({i \in DOMAIN seq : seq[i] = x})]

HasField(r, key) == \E i \in DOMAIN r.fields : r.fields[i].Key = key

(* The records the sink holds from the logger bound to span s.            *)
ViaSpan(r, s) == IsPrefix(spans[s].logger.fields, r.fields)

RecordsOf(s) == {i \in DOMAIN log : ViaSpan(log[i], s)}

(* The fields Finish appends: the first Duration field and what follows.  *)
DurationAt(r) ==
    CHOOSE i \in DOMAIN r.fields :
        /\ r.fields[i].Type = "Duration"
        /\ \A j \in 1..(i - 1) : r.fields[j].Type # "Duration"

Duration(r) == r.fields[DurationAt(r)].Integer

(* The tag fields of a Finish record of span s.                           *)
TagsOf(r, s) == SubSeq(r.fields, Len(spans[s].logger.fields) + 1, DurationAt(r) - 1)

IsFinishRecord(r) == \E i \in DOMAIN r.fields : r.fields[i].Type = "Duration"

Emitting(g) == frame[g].pc = "Finish:emit" /\ frame'[g].pc = "idle"

Snapshotting(g) == frame[g].pc = "Finish:copy" /\ frame'[g].pc = "Finish:emit"

NewRecord == log'[Len(log')]

-----------------------------------------------------------------------------
(* C1: every Finish writes one record classified by first match: a        *)
(* non-nil referenced error gives error level "span finished with error"  *)
(* whatever the elapsed time; otherwise an elapsed time above one second  *)
(* gives warn level "span finished slowly"; otherwise (at or below one    *)
(* second, nil error or nil reference) info level "span finished          *)
(* successfully".                                                         *)
C1_Classification ==
    [][\A g \in Goroutines : Emitting(g) =>
        LET s == frame[g].span
            elapsed == now - spans[s].start
            failed == frame[g].ref = "&err" /\ err # NilError
        IN  /\ Len(log') = Len(log) + 1
            /\ failed =>
                (NewRecord.level = "error" /\ NewRecord.msg = "span finished with error")
            /\ (~failed /\ elapsed > Second) =>
                (NewRecord.level = "warn" /\ NewRecord.msg = "span finished slowly")
            /\ (~failed /\ elapsed <= Second) =>
                (NewRecord.level = "info" /\ NewRecord.msg = "span finished successfully")
      ]_vars

(* An error record of a span that was also slow, and an info record of a  *)
(* span that took exactly one second.                                     *)
C1_Witness ==
    \E i, j \in DOMAIN log :
        /\ log[i].level = "error" /\ Duration(log[i]) > Second
        /\ log[j].level = "info" /\ Duration(log[j]) = Second

(* C2: for every span, the records written through its logger are as many *)
(* as the Finish calls that returned on it; StartSpan and SetTag write    *)
(* none, and a span never finished has none.                              *)
C2_OneRecordPerFinish ==
    \A s \in DOMAIN spans : Cardinality(RecordsOf(s)) = finished[s]

(* One span finished twice, another tagged and never finished.            *)
C2_Witness ==
    \E s, u \in DOMAIN spans :
        /\ finished[s] = 2 /\ Cardinality(RecordsOf(s)) = 2
        /\ finished[u] = 0 /\ returned[u] # <<>> /\ RecordsOf(u) = {}

(* No SetTag call on span s is in progress.                               *)
Quiescent(s) ==
    \A g \in Goroutines :
        ~(frame[g].span = s /\ frame[g].pc \in {"SetTag:Lock", "SetTag:append"})

PairFields(pairs) == [i \in DOMAIN pairs |-> ZapAny(pairs[i][1], pairs[i][2])]

(* C3: when every SetTag call issued on a span has returned, the snapshot *)
(* Finish takes holds exactly the appended pairs as a multiset, each a    *)
(* whole field, and the record Finish writes has as many tag fields as    *)
(* there were SetTag calls.                                               *)
C3_SnapshotIsUnion ==
    [][\A g \in Goroutines :
        LET s == frame[g].span
        IN  /\ (Snapshotting(g) /\ Quiescent(s)) =>
                /\ SeqToBag(frame'[g].fieldsCopy) = SeqToBag(PairFields(returned[s]))
                /\ Len(frame'[g].fieldsCopy) = Len(returned[s])
            /\ Emitting(g) =>
                /\ Len(log') = Len(log) + 1
                /\ Len(TagsOf(NewRecord, s)) = Len(frame[g].fieldsCopy)
                /\ SeqToBag(TagsOf(NewRecord, s)) = SeqToBag(frame[g].fieldsCopy)
      ]_vars

(* A Finish holding a snapshot of two tags set by two goroutines.         *)
C3_Witness ==
    \E g \in Goroutines :
        /\ frame[g].pc = "Finish:emit"
        /\ Quiescent(frame[g].span)
        /\ Len(returned[frame[g].span]) = 2
        /\ {f.String : f \in Range(frame[g].fieldsCopy)} = {"v", "w"}

(* C4: a SetTag racing with a Finish is in that Finish's record whole or  *)
(* not at all: the snapshot and every record's tags are a prefix of the   *)
(* span's tag sequence, and the record holds the snapshot, so a SetTag    *)
(* that takes the lock after the snapshot is not in it.                   *)
C4_RaceAtomic ==
    [][/\ \A g \in Goroutines :
            /\ frame'[g].pc = "Finish:emit" =>
                IsPrefix(frame'[g].fieldsCopy, spans'[frame'[g].span].fields)
            /\ Emitting(g) =>
                /\ Len(log') = Len(log) + 1
                /\ TagsOf(NewRecord, frame[g].span) = frame[g].fieldsCopy
       /\ \A s \in DOMAIN spans : \A i \in RecordsOf(s) :
            IsPrefix(TagsOf(log[i], s), spans'[s].fields)
       /\ \A s \in DOMAIN spans :
            spans'[s].fields = PairFields(returned'[s])
      ]_vars

(* A SetTag appended between a Finish's snapshot and its emission.        *)
C4_Witness ==
    \E g \in Goroutines :
        /\ frame[g].pc = "Finish:emit"
        /\ Len(frame[g].fieldsCopy) < Len(spans[frame[g].span].fields)

-----------------------------------------------------------------------------
(* Reading the carriers through the history of the calls that made them.  *)

Keys == {RequestIDKey, SpanKey, LoggerKey}

(* The key each derivation is meant to bind.                              *)
BoundKey(op) ==
    CASE op = "WithRequestID" -> RequestIDKey
      [] op = "StartSpan" -> SpanKey
      [] op = "WithValue" -> LoggerKey

(* The carriers a carrier was derived from, itself included, in a history.*)
RECURSIVE LineageIn(_, _)
LineageIn(hist, c) ==
    IF c = Background THEN {Background} ELSE {c} \cup LineageIn(hist, hist[c].cin)

(* The nearest carrier of c's lineage made by op, or Background.          *)
RECURSIVE NearestBy(_, _)
NearestBy(c, op) ==
    IF c = Background THEN Background
    ELSE IF derived[c].op = op THEN c
    ELSE NearestBy(derived[c].cin, op)

FieldsWithKey(fields, keys) == {i \in DOMAIN fields : fields[i].Key \in keys}

(* C5: the requestID lookup on WithRequestID(c, id) yields id, the empty  *)
(* string included, and the call leaves the requestID lookup of c, and of *)
(* every carrier that existed, as it was.                                 *)
C5_WithRequestID ==
    [][/\ \A n \in DOMAIN derived' :
            derived'[n].op = "WithRequestID" =>
                AsString(ValueIn(ctxs', n, RequestIDKey)) = [v |-> derived'[n].arg, ok |-> TRUE]
       /\ (Len(derived') > Len(derived) /\ derived'[Len(derived')].op = "WithRequestID") =>
            /\ Len(ctxs') = Len(ctxs) + 1
            /\ \A c \in Carriers :
                 ValueIn(ctxs', c, RequestIDKey) = ValueIn(ctxs, c, RequestIDKey)
      ]_vars

(* An empty request ID bound over "r1": the new carrier yields "", the    *)
(* old one still "r1".                                                    *)
C5_Witness ==
    \E n \in DOMAIN ctxs :
        /\ derived[n].op = "WithRequestID" /\ derived[n].arg = ""
        /\ derived[n].cin # Background
        /\ AsString(Value(derived[n].cin, RequestIDKey)) = [v |-> "r1", ok |-> TRUE]
        /\ AsString(Value(n, RequestIDKey)) = [v |-> "", ok |-> TRUE]

(* C6: the carrier StartSpan returns yields, as current span ID, the ID   *)
(* of the span returned with it (the spanID field of the span's logger    *)
(* and records), an ID no carrier of the input's lineage yields; the      *)
(* input carrier keeps its own current-span binding.                      *)
C6_StartSpanCarrier ==
    [][/\ \A s \in DOMAIN started' :
            LET st == started'[s]
                cur == AsString(ValueIn(ctxs', st.cout, SpanKey))
            IN  /\ cur.ok /\ cur.v = st.id
                /\ spans'[s].logger.fields[2] = ZapString("spanID", cur.v)
                /\ \A a \in LineageIn(derived', st.cin) :
                     ValueIn(ctxs', a, SpanKey).val # cur.v
       /\ \A i \in DOMAIN log' :
            IsFinishRecord(log'[i]) => \E s \in DOMAIN spans' :
                IsPrefix(spans'[s].logger.fields, log'[i].fields)
       /\ Len(started') > Len(started) =>
            LET cin == started'[Len(started')].cin
            IN  ValueIn(ctxs', cin, SpanKey) = ValueIn(ctxs, cin, SpanKey)
      ]_vars

(* A span started on the carrier another StartSpan returned.              *)
C6_Witness ==
    \E s, u \in DOMAIN started :
        /\ started[u].cin = started[s].cout
        /\ Value(started[s].cout, SpanKey).val = started[s].id
        /\ Value(started[u].cout, SpanKey).val = started[u].id

(* C7: a derived carrier yields, for every key other than the one its     *)
(* call binds, what the carrier it was derived from yields.               *)
C7_DeriveKeepsOtherKeys ==
    \A n \in DOMAIN ctxs :
        \A k \in Keys \ {BoundKey(derived[n].op)} :
            Value(n, k) = Value(derived[n].cin, k)

(* StartSpan on a carrier with a request ID, whose result still has it.   *)
C7_Witness ==
    \E s \in DOMAIN started :
        /\ AsString(Value(started[s].cin, RequestIDKey)).ok
        /\ Value(started[s].cout, RequestIDKey) = Value(started[s].cin, RequestIDKey)

(* C8: the logger StartSpan builds, and so every record of the span, has  *)
(* a requestID field exactly when requestID is bound on the input         *)
(* carrier, the empty string counting as bound, with the bound value.     *)
C8_RequestIDWhenBound ==
    \A s \in DOMAIN started :
        LET rid == AsString(Value(started[s].cin, RequestIDKey))
            f == spans[s].logger.fields
            at == FieldsWithKey(f, {"requestID"})
        IN  /\ rid.ok <=> at # {}
            /\ \A i \in at : f[i].String = rid.v
            /\ \A i \in RecordsOf(s) : HasField(log[i], "requestID") <=> rid.ok

(* C9: the logger FromContext resolves has a requestID field exactly when *)
(* requestID is bound, with the value bound last, and a span-identity     *)
(* field exactly when a span was started on the carrier's lineage, with   *)
(* the ID of the span started last, and no other field; every facade      *)
(* record starts with the fields resolved from some carrier.              *)
C9_FromContextIdentity ==
    /\ \A c \in Carriers :
        LET f == FromContext(c).fields
            nr == NearestBy(c, "WithRequestID")
            ns == NearestBy(c, "StartSpan")
            ridAt == FieldsWithKey(f, {"requestID"})
            spanAt == FieldsWithKey(f, {"span", "spanID"})
        IN  /\ Cardinality(ridAt) = (IF nr # Background THEN 1 ELSE 0)
            /\ \A i \in ridAt : f[i].String = derived[nr].arg
            /\ Cardinality(spanAt) = (IF ns # Background THEN 1 ELSE 0)
            /\ \A i \in spanAt : \E s \in DOMAIN started :
                 started[s].cout = ns /\ f[i].String = started[s].id
            /\ Len(f) = Cardinality(ridAt) + Cardinality(spanAt)
    /\ \A i \in DOMAIN log :
        log[i].msg \in Messages =>
            \E c \in Carriers, fields \in FacadeFields :
                log[i].fields = FromContext(c).fields \o fields

(* A facade record with a requestID field and no span field, and a        *)
(* carrier with a span started on it.                                     *)
C9_Witness ==
    /\ \E i \in DOMAIN log :
        /\ log[i].msg \in Messages
        /\ HasField(log[i], "requestID")
        /\ ~HasField(log[i], "span") /\ ~HasField(log[i], "spanID")
    /\ \E c \in Carriers : HasField(FromContext(c), "span")

(* C10: FromContext, and so the facade, writes to the override's core     *)
(* exactly when an override is bound on the carrier; every span's logger  *)
(* and every Finish record is on the default core, override or not.       *)
C10_OverrideOnlyInFacade ==
    /\ \A c \in Carriers :
        FromContext(c).core =
            IF NearestBy(c, "WithValue") # Background THEN "custom" ELSE "stdout"
    /\ \A s \in DOMAIN spans : spans[s].logger.core = "stdout"
    /\ \A i \in DOMAIN log :
        /\ IsFinishRecord(log[i]) => log[i].core = "stdout"
        /\ log[i].msg \in Messages =>
            \E c \in Carriers, fields \in FacadeFields :
                log[i] = Record(FromContext(c), log[i].level, log[i].msg, fields)

(* A Finish record of a span started on a carrier with an override bound. *)
C10_Witness ==
    \E s \in DOMAIN started :
        /\ NearestBy(started[s].cin, "WithValue") # Background
        /\ FromContext(started[s].cin).core = "custom"
        /\ RecordsOf(s) # {}
        /\ \A i \in RecordsOf(s) : log[i].core = "stdout"

(* C11: Finish classifies on what the error slot holds when it emits: a  *)
(* slot that was nil when Finish was entered with its address and holds   *)
(* an error at emission gives an error record with that error; a slot     *)
(* that held an error then and is nil at emission gives no error record.  *)
C11_SlotReadAtEmission ==
    [][\A g \in Goroutines : (Emitting(g) /\ frame[g].ref = "&err") =>
        /\ Len(log') = Len(log) + 1
        /\ (frame[g].atCall = NilError /\ err = Boom) =>
            /\ NewRecord.level = "error"
            /\ NewRecord.fields[Len(NewRecord.fields)] = ZapError(Boom)
        /\ (frame[g].atCall = Boom /\ err = NilError) =>
            /\ NewRecord.level # "error"
            /\ ~HasField(NewRecord, "error")
      ]_vars

(* A Finish entered with the slot nil has returned, and its record, the   *)
(* last written, is an error record.                                      *)
C11_Witness ==
    /\ log # <<>>
    /\ frame["g1"].pc = "idle"
    /\ frame["g1"].atCall = NilError
    /\ log[Len(log)].level = "error"

(* C12: Finish leaves the span's tags as they are and may be called      *)
(* again: each call writes a record, and a later call's snapshot is every *)
(* earlier record's tags followed, in order, by the tags appended since.  *)
C12_DoubleFinish ==
    [][\A g \in Goroutines :
        LET s == frame[g].span
        IN  /\ Snapshotting(g) =>
                /\ spans'[s].fields = spans[s].fields
                /\ frame'[g].fieldsCopy = PairFields(returned[s])
                /\ \A i \in RecordsOf(s) :
                     \E n \in 0..Len(returned[s]) :
                        /\ TagsOf(log[i], s) = PairFields(SubSeq(returned[s], 1, n))
                        /\ frame'[g].fieldsCopy =
                             TagsOf(log[i], s)
                                \o PairFields(SubSeq(returned[s], n + 1, Len(returned[s])))
            /\ Emitting(g) =>
                /\ spans'[s].fields = spans[s].fields
                /\ Len(log') = Len(log) + 1
                /\ TagsOf(NewRecord, s) = frame[g].fieldsCopy
      ]_vars

(* Two records of one span: the first with one tag, the second with that  *)
(* tag and one appended after the first Finish.                           *)
C12_Witness ==
    \E s \in DOMAIN spans : \E i, j \in RecordsOf(s) :
        /\ i < j
        /\ finished[s] = 2
        /\ Len(TagsOf(log[i], s)) = 1
        /\ Len(TagsOf(log[j], s)) = 2
        /\ IsPrefix(TagsOf(log[i], s), TagsOf(log[j], s))

C14_Facade ==
    [][Len(called') = Len(called) + 1 =>
        LET k == called'[Len(called')]
            l == FromContext(k.c)
            level == CASE k.op = "Info" -> "info" [] k.op = "Warn" -> "warn"
                       [] k.op = "Error" -> "error"
        IN  /\ Len(log') = Len(log) + 1
            /\ NewRecord.core = l.core
            /\ NewRecord.level = level
            /\ NewRecord.msg = k.msg
            /\ NewRecord.fields = l.fields \o k.fields
            /\ ctxs' = ctxs
            /\ spans' = spans
      ]_vars

(* A Warn on a carrier that binds an override logger and a request ID:    *)
(* one warn record on the override's core, the request ID first.          *)
C14_Witness ==
    /\ Len(called) = 1
    /\ called[1].op = "Warn"
    /\ Len(log) = 1
    /\ log[1].core = "custom"
    /\ log[1].level = "warn"
    /\ log[1].fields = <<[Key |-> "requestID", Type |-> "String", Integer |-> 0, String |-> "r1"]>>
                            \o called[1].fields

(* C15: what FromContext resolves from a carrier is the same before and   *)
(* after every operation (a derivation, StartSpan, SetTag, Finish, a      *)
(* facade call), and a call that resolves a logger changes no carrier and *)
(* no span.                                                               *)
C15_FromContextStable ==
    [][/\ \A c \in Carriers : FromContext(c)' = FromContext(c)
       /\ Len(called') > Len(called) =>
            /\ ctxs' = ctxs
            /\ spans' = spans
            /\ frame' = frame
      ]_vars

(* A record resolved from a span's carrier still shows what the carrier   *)
(* resolves to, although a carrier with another identity has been derived *)
(* from it and the span has been tagged.                                  *)
C15_Witness ==
    \E c, d \in DOMAIN ctxs, s \in DOMAIN spans :
        /\ started[s].cout = c
        /\ returned[s] # <<>>
        /\ ctxs[d].parent = c
        /\ FromContext(d) # FromContext(c)
        /\ Len(called) = 1
        /\ called[1].c = c
        /\ Len(log) = 1
        /\ FromContext(c).fields # <<>>
        /\ log[1].fields = FromContext(c).fields \o called[1].fields

(* C16: SetTag only appends: the span's tags after the call are the tags  *)
(* before it followed by the new pair, whether or not the key is already  *)
(* there, and no other span changes; a Finish record shows the pairs in   *)
(* the order the SetTag calls returned, repeated keys repeated.           *)
C16_AppendOnly ==
    [][\A g \in Goroutines :
        LET s == frame[g].span
        IN  /\ (frame[g].pc = "SetTag:append" /\ frame'[g].pc = "idle") =>
                /\ spans'[s].fields =
                     spans[s].fields \o
                        <<[Key |-> frame[g].key, Type |-> "String", Integer |-> 0,
                           String |-> frame[g].value]>>
                /\ \A o \in DOMAIN spans \ {s} : spans'[o].fields = spans[o].fields
            /\ Emitting(g) =>
                TagsOf(NewRecord, s) =
                    PairFields(SubSeq(returned[s], 1, Len(frame[g].fieldsCopy)))
      ]_vars

(* A record with two tags of the same key, in the order they were set.    *)
C16_Witness ==
    \E s \in DOMAIN spans : \E i \in RecordsOf(s) :
        /\ returned[s] = <<(<<"k", "v">>), (<<"k", "w">>)>>
        /\ Len(TagsOf(log[i], s)) = 2
        /\ TagsOf(log[i], s)[1].Key = TagsOf(log[i], s)[2].Key
        /\ TagsOf(log[i], s)[1].String = "v"
        /\ TagsOf(log[i], s)[2].String = "w"

(* C17: the logger FromContext resolves from a carrier that binds a span  *)
(* ID reports that ID under the key spanID, and in every record written   *)
(* the key span holds a span name and a span ID stands under spanID.      *)
C17_SpanIDKey ==
    /\ \A c \in Carriers :
        LET id == AsString(Value(c, SpanKey))
        IN  id.ok =>
                \E i \in DOMAIN FromContext(c).fields :
                    /\ FromContext(c).fields[i].Key = "spanID"
                    /\ FromContext(c).fields[i].String = id.v
    /\ \A i \in DOMAIN log : \A j \in DOMAIN log[i].fields :
        LET f == log[i].fields[j]
        IN  /\ f.Key = "span" => f.String \in Names
            /\ f.String \in Range(UUIDs) => f.Key = "spanID"

(* C18: a span's logger is built by StartSpan with span = the name,       *)
(* spanID = the generated ID and, if any, requestID = the value bound on  *)
(* the input carrier; no step changes the logger of an existing span, and *)
(* every Finish record starts with those fields, with no other field      *)
(* keyed span, spanID or requestID after them.                            *)
C18_IdentityFixed ==
    [][/\ \A s \in DOMAIN spans : spans'[s].logger = spans[s].logger
       /\ \A s \in DOMAIN spans' \ DOMAIN spans :
            LET f == spans'[s].logger.fields
            IN  /\ Len(f) >= 2
                /\ f[1] = [Key |-> "span", Type |-> "String", Integer |-> 0,
                           String |-> started'[s].name]
                /\ f[2] = [Key |-> "spanID", Type |-> "String", Integer |-> 0,
                           String |-> started'[s].id]
                /\ \A i \in 3..Len(f) :
                    /\ f[i].Key = "requestID"
                    /\ f[i].String = AsString(Value(started'[s].cin, RequestIDKey)).v
       /\ \A g \in Goroutines : Emitting(g) =>
            LET s == frame[g].span
                f == spans[s].logger.fields
                r == NewRecord
            IN  /\ IsPrefix(f, r.fields)
                /\ r.fields[1].String = started[s].name
                /\ r.fields[2].String = started[s].id
                /\ \A j \in (Len(f) + 1)..Len(r.fields) :
                    r.fields[j].Key \notin {"span", "spanID", "requestID"}
      ]_vars

(* A Finish record of a tagged span from whose returned carrier a carrier *)
(* with request ID r1 was derived: the record has the span's name and ID  *)
(* and no request ID.                                                     *)
C18_Witness ==
    \E s \in DOMAIN spans, d \in DOMAIN ctxs : \E i \in RecordsOf(s) :
        /\ derived[d] = [op |-> "WithRequestID", cin |-> started[s].cout, arg |-> "r1"]
        /\ returned[s] # <<>>
        /\ finished[s] = 1
        /\ log[i].fields[1].String = started[s].name
        /\ log[i].fields[2].String = started[s].id
        /\ ~HasField(log[i], "requestID")

(* C19: on each span at most one goroutine is between Lock and Unlock of  *)
(* a SetTag append or a Finish snapshot, and it is the holder of the      *)
(* span's lock; a Finish that is about to write its record does not hold  *)
(* the lock, which is free unless another call is in its critical section.*)
C19_CriticalSection ==
    \A s \in DOMAIN spans :
        LET inside == {g \in Goroutines :
                        /\ frame[g].span = s
                        /\ frame[g].pc \in {"SetTag:append", "Finish:copy"}}
        IN  /\ Cardinality(inside) <= 1
            /\ \A g \in inside : spans[s].mu = g
            /\ inside = {} => spans[s].mu = NoGoroutine
            /\ \A g \in Goroutines :
                (frame[g].span = s /\ frame[g].pc = "Finish:emit") => spans[s].mu # g

(* One goroutine about to write a span's record while the other appends   *)
(* a tag to the same span under the lock, and one waiting for the lock    *)
(* held by an appender.                                                   *)
C19_Witness ==
    \E s \in DOMAIN spans :
        /\ frame["g1"].span = s
        /\ frame["g2"].span = s
        /\ frame["g1"].pc = "Finish:emit"
        /\ frame["g2"].pc = "SetTag:append"
        /\ spans[s].mu = "g2"

(* C20: under fair scheduling every SetTag and every Finish call that has *)
(* been entered returns, whoever else is calling and however often the    *)
(* span has been finished; the lock of a span is only ever held by a      *)
(* goroutine inside a critical section, which releases it.                *)
C20_CallsReturn ==
    /\ [](\A s \in DOMAIN spans : spans[s].mu # NoGoroutine =>
            /\ frame[spans[s].mu].span = s
            /\ frame[spans[s].mu].pc \in {"SetTag:append", "Finish:copy"})
    /\ \A g \in Goroutines : (frame[g].pc # "idle") ~> (frame[g].pc = "idle")

(* A goroutine waiting for the lock of a span already finished once,      *)
(* while the other goroutine holds it in a second Finish.                 *)
C20_Witness ==
    \E s \in DOMAIN spans :
        /\ finished[s] = 1
        /\ frame["g1"].span = s
        /\ frame["g1"].pc \in {"SetTag:Lock", "Finish:Lock"}
        /\ frame["g2"].span = s
        /\ frame["g2"].pc = "Finish:copy"
        /\ spans[s].mu = "g2"

=============================================================================
